---------------------------- MODULE Spec2Model ----------------------------
(***************************************************************************)
(* A model of the Maven dependencies MCP server (src/src/index.ts, the     *)
(* latest variant of the file, lines 588-1085): coordinate parsing, the    *)
(* pre-release classifier, the argument validators and the three tool      *)
(* handlers get_latest_release, check_maven_version_exists and             *)
(* list_maven_versions.                                                    *)
(*                                                                         *)
(* A JavaScript string is a sequence of one-character strings, so that     *)
(* split, the regular expression, template literals and join are computed  *)
(* character by character.  A JavaScript value is a record tagged by its   *)
(* typeof: [t |-> "undefined"], [t |-> "string", s |-> chars], ...         *)
(***************************************************************************)
EXTENDS Integers, Sequences, FiniteSets, TLC

\* ------------------------------------------------------------------ bounds

\* Longest dependency string enumerated by SpecParse.
MaxDepLen == 7

\* Longest version string enumerated by SpecPre.
MaxVerLen == 4

\* Most records in one search response.
MaxDocs == 3

\* Invocations in flight side by side.
MaxCalls == 2

\* Messages a client sends to the server over its transport.
MaxMessages == 3

\* SSE connections opened over the life of the server.
MaxConnections == 2

\* Versions in a list handed to the version sort.
MaxVersions == 3

\* --------------------------------------------------------- JavaScript values

Undefined == [t |-> "undefined"]

Str(chars) == [t |-> "string", s |-> chars]

Bool(b) == [t |-> "boolean", b |-> b]

\* JavaScript truthiness of the values the handlers test (ToBoolean).
Truthy(v) ==
    CASE v.t = "undefined" -> FALSE
      [] v.t = "null"      -> FALSE
      [] v.t = "string"    -> Len(v.s) > 0
      [] v.t = "boolean"   -> v.b
      [] OTHER             -> TRUE

\* ------------------------------------------------------- String.prototype.split

\* dependency.split(':'): the pieces between separators, empty pieces kept;
\* a string without the separator (the empty string too) gives one piece.
RECURSIVE SplitFrom(_, _, _, _, _)
SplitFrom(chars, sep, i, cur, acc) ==
    IF i > Len(chars) THEN Append(acc, cur)
    ELSE IF chars[i] = sep THEN SplitFrom(chars, sep, i + 1, <<>>, Append(acc, cur))
    ELSE SplitFrom(chars, sep, i + 1, Append(cur, chars[i]), acc)

Split(chars, sep) == SplitFrom(chars, sep, 1, <<>>, <<>>)

\* parts[i] of a JavaScript array (0-based): undefined beyond its length.
At(parts, i) == IF i + 1 <= Len(parts) THEN Str(parts[i + 1]) ELSE Undefined

\* ------------------------------------------------------- parseMavenCoordinate

InvalidParams == [kind |-> "McpError", code |-> "InvalidParams"]

\* A variant that maps the optional segments one place too far.
parseMavenCoordinateShifted(dependency) ==
    LET parts == Split(dependency, ":") IN
    IF Len(parts) < 2 THEN InvalidParams
    ELSE [kind       |-> "coord",
          groupId    |-> At(parts, 0),
          artifactId |-> At(parts, 1),
          version    |-> At(parts, 3),
          packaging  |-> At(parts, 4),
          classifier |-> At(parts, 5)]

parseMavenCoordinate(dependency) ==
    LET parts == Split(dependency, ":") IN
    IF Len(parts) < 2 THEN InvalidParams
    ELSE [kind       |-> "coord",
          groupId    |-> At(parts, 0),
          artifactId |-> At(parts, 1),
          version    |-> At(parts, 2),
          packaging  |-> At(parts, 3),
          classifier |-> At(parts, 4)]

\* -------------------------------------------------------- isPreReleaseVersion

LowerCase == <<"a", "b", "c", "d", "e", "f", "g", "h", "i", "j", "k", "l", "m",
               "n", "o", "p", "q", "r", "s", "t", "u", "v", "w", "x", "y", "z">>

UpperCase == <<"A", "B", "C", "D", "E", "F", "G", "H", "I", "J", "K", "L", "M",
               "N", "O", "P", "Q", "R", "S", "T", "U", "V", "W", "X", "Y", "Z">>

ToUpperCase == [ch \in {LowerCase[k] : k \in 1..26} |->
                    UpperCase[CHOOSE k \in 1..26 : LowerCase[k] = ch]]

\* Canonicalize of a pattern or input character under the i flag: its upper case.
Canonicalize(ch) == IF ch \in DOMAIN ToUpperCase THEN ToUpperCase[ch] ELSE ch

\* The alternatives of the group (alpha|a|beta|b|milestone|m|rc|cr|snapshot), in order.
Alternatives ==
    << <<"a", "l", "p", "h", "a">>,
       <<"a">>,
       <<"b", "e", "t", "a">>,
       <<"b">>,
       <<"m", "i", "l", "e", "s", "t", "o", "n", "e">>,
       <<"m">>,
       <<"r", "c">>,
       <<"c", "r">>,
       <<"s", "n", "a", "p", "s", "h", "o", "t">> >>

\* Whether pattern characters k.. match the input from position i on;
\* ci is the i flag.
RECURSIVE MatchChars(_, _, _, _, _)
MatchChars(chars, i, pat, k, ci) ==
    IF k > Len(pat) THEN TRUE
    ELSE IF i > Len(chars) THEN FALSE
    ELSE IF (IF ci THEN Canonicalize(chars[i]) = Canonicalize(pat[k]) ELSE chars[i] = pat[k])
         THEN MatchChars(chars, i + 1, pat, k + 1, ci)
         ELSE FALSE

\* The alternatives tried in order after the hyphen matched at position i.
RECURSIVE MatchAlternatives(_, _, _, _)
MatchAlternatives(chars, i, n, ci) ==
    IF n > Len(Alternatives) THEN FALSE
    ELSE IF MatchChars(chars, i, Alternatives[n], 1, ci) THEN TRUE
    ELSE MatchAlternatives(chars, i, n + 1, ci)

\* preReleasePattern.test(version): the pattern is tried at every start position.
RECURSIVE RegExpTestFrom(_, _, _)
RegExpTestFrom(chars, start, ci) ==
    IF start > Len(chars) THEN FALSE
    ELSE IF MatchChars(chars, start, <<"-">>, 1, ci) /\ MatchAlternatives(chars, start + 1, 1, ci)
         THEN TRUE
         ELSE RegExpTestFrom(chars, start + 1, ci)

\* The pattern without its i flag.
isPreReleaseVersionCaseSensitive(version) == RegExpTestFrom(version, 1, FALSE)

isPreReleaseVersion(version) == RegExpTestFrom(version, 1, TRUE)

\* ------------------------------------------------------- argument validators

\* A JSON number: whole, or whole + 1/2 when half (2.5 is [n |-> 2, half |-> TRUE]).
Num(n) == [t |-> "number", n |-> n, half |-> FALSE]

NumAndHalf(n) == [t |-> "number", n |-> n, half |-> TRUE]

Null == [t |-> "null"]

\* typeof v: typeof null is "object".
TypeOf(v) == IF v.t = "null" THEN "object" ELSE v.t

\* number > 0
GreaterThanZero(v) == v.n > 0 \/ (v.n = 0 /\ v.half)

\* v || d
OrElse(v, d) ==
    IF v.t = "number" THEN (IF v.n = 0 /\ ~v.half THEN d ELSE v)
    ELSE IF Truthy(v) THEN v ELSE d

\* v ?? d
Coalesce(v, d) == IF v.t \in {"undefined", "null"} THEN d ELSE v

\* The arguments object of a call: a property that is not given is undefined.
Args(dependency, version, depth, excludePreReleases) ==
    [t |-> "object", dependency |-> dependency, version |-> version,
     depth |-> depth, excludePreReleases |-> excludePreReleases]

isValidVersionCheckArgs(a) ==
    /\ TypeOf(a) = "object"
    /\ a # Null
    /\ TypeOf(a.dependency) = "string"
    /\ (a.version = Undefined \/ TypeOf(a.version) = "string")

isValidReleaseArgs(a) ==
    /\ TypeOf(a) = "object"
    /\ a # Null
    /\ TypeOf(a.dependency) = "string"
    /\ (a.excludePreReleases = Undefined \/ TypeOf(a.excludePreReleases) = "boolean")

isValidListVersionsArgs(a) ==
    /\ TypeOf(a) = "object"
    /\ a # Null
    /\ TypeOf(a.dependency) = "string"
    /\ (a.depth = Undefined \/ (TypeOf(a.depth) = "number" /\ GreaterThanZero(a.depth)))
    /\ (a.excludePreReleases = Undefined \/ TypeOf(a.excludePreReleases) = "boolean")

\* ------------------------------------------------------------ search query

DefaultDepth == 15

\* rows of get_latest_release and list_maven_versions.
RowsMany == 100

\* rows of check_maven_version_exists.
RowsOne == 1

\* `g:"${coord.groupId}" AND a:"${coord.artifactId}"`
QueryGA(coord) ==
    <<"g", ":", "\"">> \o coord.groupId.s
        \o <<"\"", " ", "A", "N", "D", " ", "a", ":", "\"">> \o coord.artifactId.s
        \o <<"\"">>

\* ` AND v:"${version}"`
ClauseV(version) == <<" ", "A", "N", "D", " ", "v", ":", "\"">> \o version.s \o <<"\"">>

\* The packaging clause left out.
WithPackagingOmitted(query, coord) == query

\* if (coord.packaging) query += ` AND p:"${coord.packaging}"`
WithPackaging(query, coord) ==
    IF Truthy(coord.packaging)
    THEN query \o <<" ", "A", "N", "D", " ", "p", ":", "\"">> \o coord.packaging.s \o <<"\"">>
    ELSE query

\* The params of axiosInstance.get('', {params}).
SearchRequest(query, rows, sort) ==
    [q |-> query, core |-> "gav", rows |-> rows, wt |-> "json", sort |-> sort]

\* ------------------------------------------------------------ result texts

\* The classifier named in the texts of a result.
CoordTextWithClassifier(coord) ==
    coord.groupId.s \o <<":">> \o coord.artifactId.s
        \o (IF Truthy(coord.packaging) THEN <<":">> \o coord.packaging.s ELSE <<>>)
        \o (IF Truthy(coord.classifier) THEN <<":">> \o coord.classifier.s ELSE <<>>)

\* `${coord.groupId}:${coord.artifactId}${coord.packaging ? ':' + coord.packaging : ''}`
CoordText(coord) ==
    coord.groupId.s \o <<":">> \o coord.artifactId.s
        \o (IF Truthy(coord.packaging) THEN <<":">> \o coord.packaging.s ELSE <<>>)

NoDependencyText(coord) ==
    <<"N", "o", " ", "M", "a", "v", "e", "n", " ", "d", "e", "p", "e", "n", "d", "e", "n",
      "c", "y", " ", "f", "o", "u", "n", "d", " ", "f", "o", "r", " ">> \o CoordText(coord)

NoStableTextAsNotFound(coord) == NoDependencyText(coord)

NoStableText(coord) ==
    <<"N", "o", " ", "s", "t", "a", "b", "l", "e", " ", "r", "e", "l", "e", "a", "s", "e",
      "s", " ", "f", "o", "u", "n", "d", " ", "f", "o", "r", " ">> \o CoordText(coord)
        \o <<".", " ", "A", "l", "l", " ", "a", "v", "a", "i", "l", "a", "b", "l", "e", " ",
             "v", "e", "r", "s", "i", "o", "n", "s", " ", "a", "r", "e", " ", "p", "r", "e",
             "-", "r", "e", "l", "e", "a", "s", "e", "s", ".">>

\* `Maven Central API error: ${error.response?.data?.error?.msg ?? error.message}`
ApiErrorText(error) ==
    <<"M", "a", "v", "e", "n", " ", "C", "e", "n", "t", "r", "a", "l", " ", "A", "P", "I",
      " ", "e", "r", "r", "o", "r", ":", " ">> \o Coalesce(error.msg, Str(error.message)).s

\* {content: [{type: 'text', text}]}, with isError: true when flagged.
Content(text, isError) == [kind |-> "content", text |-> text, isError |-> isError]

\* An error that is not an McpError, thrown out of the handler.
Thrown(name) == [kind |-> "Error", name |-> name]

\* ------------------------------------------- Date.prototype.toISOString

MsPerDay == 86400000

DigitChars == <<"0", "1", "2", "3", "4", "5", "6", "7", "8", "9">>

\* n in decimal, left-padded with zeros to the given width.
RECURSIVE Padded(_, _)
Padded(n, width) ==
    IF width = 0 THEN <<>>
    ELSE Append(Padded(n \div 10, width - 1), DigitChars[(n % 10) + 1])

\* Year, month and day of a day number counted from 1970-01-01 (Gregorian).
CivilFromDays(days) ==
    LET z    == days + 719468
        era  == z \div 146097
        doe  == z - era * 146097
        yoe  == (doe - doe \div 1460 + doe \div 36524 - doe \div 146096) \div 365
        doy  == doe - (365 * yoe + yoe \div 4 - yoe \div 100)
        mp   == (5 * doy + 2) \div 153
        d    == doy - (153 * mp + 2) \div 5 + 1
        m    == IF mp < 10 THEN mp + 3 ELSE mp - 9
        y    == yoe + era * 400 + (IF m <= 2 THEN 1 ELSE 0)
    IN [year |-> y, month |-> m, day |-> d]

\* new Date(ms).toISOString() for a time value ms >= 0: YYYY-MM-DDTHH:mm:ss.sssZ
ToISOString(ms) ==
    LET date == CivilFromDays(ms \div MsPerDay)
        rest == ms % MsPerDay
    IN Padded(date.year, 4) \o <<"-">> \o Padded(date.month, 2) \o <<"-">>
           \o Padded(date.day, 2) \o <<"T">>
           \o Padded(rest \div 3600000, 2) \o <<":">>
           \o Padded((rest \div 60000) % 60, 2) \o <<":">>
           \o Padded((rest \div 1000) % 60, 2) \o <<".">>
           \o Padded(rest % 1000, 3) \o <<"Z">>

\* `${doc.v} (${new Date(doc.timestamp).toISOString().split('T')[0]})`
VersionLine(doc) ==
    doc.v \o <<" ", "(">> \o Split(ToISOString(doc.timestamp.n), "T")[1] \o <<")">>

\* ------------------------------------------- sort, slice, join of the listing

\* b.timestamp - a.timestamp > 0: b goes before a.
Before(b, a) == b.timestamp.n > a.timestamp.n

\* Stable insertion of doc into a list already in order: after every record
\* that does not compare greater than it.
RECURSIVE InsertSorted(_, _)
InsertSorted(sorted, doc) ==
    IF sorted = <<>> THEN <<doc>>
    ELSE LET last == sorted[Len(sorted)] IN
         IF Before(doc, last)
         THEN Append(InsertSorted(SubSeq(sorted, 1, Len(sorted) - 1), doc), last)
         ELSE Append(sorted, doc)

\* The sort left out: the records as they arrived.
SortOmitted(docs) == docs

RECURSIVE SortByTimestampDesc(_)
SortByTimestampDesc(docs) ==
    IF docs = <<>> THEN <<>>
    ELSE InsertSorted(SortByTimestampDesc(SubSeq(docs, 1, Len(docs) - 1)), docs[Len(docs)])

\* Every order of the records.
Orderings(docs) ==
    {[i \in 1..Len(docs) |-> docs[p[i]]] :
        p \in {f \in [1..Len(docs) -> 1..Len(docs)] :
                  \A i, j \in 1..Len(docs) : i # j => f[i] # f[j]}}

HasTimestamp(doc) == doc.timestamp.t = "number"

\* filteredDocs.sort((a, b) => b.timestamp - a.timestamp): a stable sort when
\* every record has a timestamp.  With a timestamp missing the comparator
\* returns NaN, is not a consistent comparison, and the order is whatever the
\* engine makes of it: any order.
SortResults(docs) ==
    IF \A i \in 1..Len(docs) : HasTimestamp(docs[i])
    THEN {SortByTimestampDesc(docs)}
    ELSE Orderings(docs)

\* The page taken twice over.
SliceToDoubled(docs, end) ==
    SubSeq(docs, 1, IF end.n < Len(docs) THEN end.n ELSE Len(docs))
        \o SubSeq(docs, 1, IF end.n < Len(docs) THEN end.n ELSE Len(docs))

\* array.slice(0, end) for a number end > 0: ToIntegerOrInfinity truncates.
SliceTo(docs, end) == SubSeq(docs, 1, IF end.n < Len(docs) THEN end.n ELSE Len(docs))

\* lines.join('\n')
RECURSIVE Join(_)
Join(lines) ==
    IF lines = <<>> THEN <<>>
    ELSE IF Len(lines) = 1 THEN lines[1]
    ELSE lines[1] \o <<"\n">> \o Join(Tail(lines))

\* docs.filter(doc => !isPreReleaseVersion(doc.v))
StableOnly(docs) == SelectSeq(docs, LAMBDA doc : ~isPreReleaseVersion(doc.v))

\* ------------------------------------------------------------ tool handlers
\* Each handler runs to its await of axiosInstance.get (Start), is suspended,
\* and runs from the settled call to its return or throw (Finish).

Throw(error) == [kind |-> "throw", error |-> error]

Await(request, locals) == [kind |-> "await", request |-> request, local |-> locals]

SortTimestampDesc == "timestamp desc"

\* No sort among the params.
SortAbsent == "(absent)"

\* The default taken as false.
ExcludePreReleasesDefaultFalse(a) == Coalesce(a.excludePreReleases, Bool(FALSE))

\* const excludePreReleases = args.excludePreReleases ?? true
ExcludePreReleasesOf(a) == Coalesce(a.excludePreReleases, Bool(TRUE))

handleGetLatestReleaseStart(a) ==
    IF ~isValidReleaseArgs(a) THEN Throw(InvalidParams)
    ELSE LET coord == parseMavenCoordinate(a.dependency.s) IN
         IF coord.kind # "coord" THEN Throw(coord)
         ELSE Await(SearchRequest(WithPackaging(QueryGA(coord), coord), RowsMany, SortTimestampDesc),
                    [coord |-> coord,
                     excludePreReleases |-> ExcludePreReleasesOf(a)])

handleGetLatestReleaseFinish(l, resp) ==
    IF resp.kind = "axiosError" THEN {Content(ApiErrorText(resp), TRUE)}
    ELSE IF resp.kind = "malformed" THEN {Thrown("TypeError")}
    ELSE IF Len(resp.docs) = 0 THEN {Content(NoDependencyText(l.coord), TRUE)}
    ELSE LET versions == IF l.excludePreReleases.b THEN StableOnly(resp.docs) ELSE resp.docs IN
         IF l.excludePreReleases.b /\ Len(versions) = 0
         THEN {Content(NoStableText(l.coord), TRUE)}
         ELSE {Content(versions[1].v, FALSE)}

\* const version = args.version || coord.version: the separate argument first.
VersionArgumentFirst(coord, a) == OrElse(a.version, coord.version)

\* const version = coord.version || args.version
VersionToCheck(coord, a) == OrElse(coord.version, a.version)

\* if (version === undefined) throw: an empty version let through.
VersionMissingUndefinedOnly(version) == version = Undefined

\* !version
VersionMissing(version) == ~Truthy(version)

handleCheckVersionExistsStart(a) ==
    IF ~isValidVersionCheckArgs(a) THEN Throw(InvalidParams)
    ELSE LET coord == parseMavenCoordinate(a.dependency.s) IN
         IF coord.kind # "coord" THEN Throw(coord)
         ELSE LET version == VersionToCheck(coord, a) IN
              IF VersionMissing(version) THEN Throw(InvalidParams)
              ELSE Await(SearchRequest(WithPackaging(QueryGA(coord) \o ClauseV(version), coord),
                                       RowsOne, SortAbsent),
                         [coord |-> coord, version |-> version])

\* An empty response answered as a not-found error text.
handleCheckVersionExistsFinishNotFound(l, resp) ==
    IF resp.kind = "axiosError" THEN {Content(ApiErrorText(resp), TRUE)}
    ELSE IF resp.kind = "malformed" THEN {Thrown("TypeError")}
    ELSE IF Len(resp.docs) = 0 THEN {Content(NoDependencyText(l.coord), TRUE)}
    ELSE {Content(<<"t", "r", "u", "e">>, FALSE)}

handleCheckVersionExistsFinish(l, resp) ==
    IF resp.kind = "axiosError" THEN {Content(ApiErrorText(resp), TRUE)}
    ELSE IF resp.kind = "malformed" THEN {Thrown("TypeError")}
    ELSE {Content(IF Len(resp.docs) > 0 THEN <<"t", "r", "u", "e">>
                                         ELSE <<"f", "a", "l", "s", "e">>, FALSE)}

handleListVersionsStart(a) ==
    IF ~isValidListVersionsArgs(a) THEN Throw(InvalidParams)
    ELSE LET coord == parseMavenCoordinate(a.dependency.s) IN
         IF coord.kind # "coord" THEN Throw(coord)
         ELSE Await(SearchRequest(WithPackaging(QueryGA(coord), coord), RowsMany, SortTimestampDesc),
                    [coord |-> coord,
                     depth |-> OrElse(a.depth, Num(DefaultDepth)),
                     excludePreReleases |-> ExcludePreReleasesOf(a)])

\* .slice(0, depth).map(doc => `...`) and the return: toISOString throws a
\* RangeError on the Invalid Date of a record without a timestamp.
ListingOf(sorted, depth) ==
    LET page == SliceTo(sorted, depth) IN
    IF \E i \in 1..Len(page) : ~HasTimestamp(page[i]) THEN Thrown("RangeError")
    ELSE Content(Join([i \in 1..Len(page) |-> VersionLine(page[i])]), FALSE)

handleListVersionsFinish(l, resp) ==
    IF resp.kind = "axiosError" THEN {Content(ApiErrorText(resp), TRUE)}
    ELSE IF resp.kind = "malformed" THEN {Thrown("TypeError")}
    ELSE IF Len(resp.docs) = 0 THEN {Content(NoDependencyText(l.coord), TRUE)}
    ELSE LET filteredDocs == IF l.excludePreReleases.b THEN StableOnly(resp.docs) ELSE resp.docs IN
         IF Len(filteredDocs) = 0
         THEN {Content(IF l.excludePreReleases.b THEN NoStableText(l.coord)
                                                 ELSE NoDependencyText(l.coord), TRUE)}
         ELSE {ListingOf(sorted, l.depth) : sorted \in SortResults(filteredDocs)}

\* ---------------------------------------------------------------- state

VARIABLES
    pc,        \* "idle" | "awaiting" (suspended at axiosInstance.get) | "done"
    tool,      \* name of the tool being called
    args,      \* request.params.arguments
    local,     \* the handler's locals kept across the await
    sent,      \* the search requests issued by this invocation, in order
    response,  \* what the search call settled with
    result,    \* what the handler returned or threw
    fin,       \* input of the pure function under check (SpecParse, SpecPre)
    fout,      \* its output
    calls,     \* the invocations in flight side by side (SpecConc), by slot
    net        \* the transport of run(): its mode, connection and messages (SpecTransport)

vars == <<pc, tool, args, local, sent, response, result, fin, fout, calls, net>>

None == [kind |-> "none"]

\* All sequences over a set of elements, up to a length.
RECURSIVE SeqsUpTo(_, _)
SeqsUpTo(alphabet, n) ==
    IF n = 0 THEN {<<>>}
    ELSE LET shorter == SeqsUpTo(alphabet, n - 1) IN
         shorter \cup {Append(s, c) : s \in {x \in shorter : Len(x) = n - 1}, c \in alphabet}

\* An invocation slot with no invocation in it.
IdleCall ==
    [pc |-> "idle", tool |-> "none", args |-> None, local |-> None, sent |-> <<>>,
     response |-> None, result |-> None, overlapped |-> FALSE]

Slots == 1..MaxCalls

\* The variables of the other specifications, left as they are.
aside == <<calls, net>>

\* run(opts) has set up the transport of the given mode; no message yet.
\* currentTransport and connected hold the number of an SSE connection, 0 for
\* undefined; open is the set of SSE connections whose response is open.
NetStart(mode) ==
    [mode |-> mode, currentTransport |-> 0, connected |-> 0, open |-> {}, opened |-> 0,
     closedUnder |-> {}, received |-> <<>>, inbox |-> {}, answered |-> {}]

AsideIdle ==
    /\ calls = [i \in Slots |-> IdleCall]
    /\ net = NetStart("stdio")

HandlerIdle ==
    /\ pc = "idle"
    /\ tool = "none"
    /\ args = None
    /\ local = None
    /\ sent = <<>>
    /\ response = None
    /\ result = None

\* ------------------------------------------------------ calls and responses

\* The dependency strings of the calls.
DependencyStrings ==
    { <<>>,
      <<"g">>,
      <<"g", ":">>,
      <<"g", ":", "a">>,
      <<"g", ":", "a", ":", "1">>,
      <<"g", ":", "a", ":", ":", "j">>,
      <<"g", ":", "a", ":", "1", ":", "j", ":", "c">> }

DependencyValues == {Str(d) : d \in DependencyStrings} \cup {Undefined}

VersionValues == {Undefined, Str(<<>>), Str(<<"2">>), Bool(TRUE)}

DepthValues ==
    {Undefined, Num(0), NumAndHalf(0), Num(1), Num(2), Num(101), Str(<<"2">>)}

ExcludeValues == {Undefined, Bool(TRUE), Bool(FALSE), Str(<<"x">>)}

ReleaseArgs ==
    {Args(d, Undefined, Undefined, e) : d \in DependencyValues, e \in ExcludeValues} \cup {Null}

VersionCheckArgs ==
    {Args(d, v, Undefined, Undefined) : d \in DependencyValues, v \in VersionValues} \cup {Null}

ListVersionsArgs ==
    {Args(d, Undefined, n, e) :
        d \in DependencyValues, n \in DepthValues, e \in ExcludeValues} \cup {Null}

\* Publish times in epoch milliseconds: 1970-01-01T00:00:01Z and
\* 1970-01-02T01:00:00Z (today's time values do not fit the checker's integers).
DocTimestamps == {1000, 90000000}

StableVersions == { <<"1", ".", "0">>, <<"2", ".", "0">> }

\* The records a response may hold: two stable versions at either time, a
\* release candidate at the later time, and a record that lacks its timestamp.
Docs ==
    {[v |-> ver, timestamp |-> Num(ts)] : ver \in StableVersions, ts \in DocTimestamps}
        \cup {[v |-> <<"2", ".", "0", "-", "R", "C">>, timestamp |-> Num(90000000)],
              [v |-> <<"3", ".", "0">>, timestamp |-> Undefined]}

DocLists == SeqsUpTo(Docs, MaxDocs)

\* How the search call can settle: a body with response.docs (in the order the
\* server chose, at most rows records), an AxiosError (no response, or a non-2xx
\* response with or without error.msg in its body), or a 2xx body without
\* response.docs.
Responses(rows) ==
    {[kind |-> "ok", docs |-> docs] : docs \in {l \in DocLists : Len(l) <= rows}}
        \cup {[kind |-> "axiosError", msg |-> Undefined,
                message |-> <<"N", "e", "t", "w", "o", "r", "k", " ", "E", "r", "r", "o", "r">>],
              [kind |-> "axiosError", msg |-> Str(<<"b", "a", "d", " ", "q">>),
                message |-> <<"s", "t", "a", "t", "u", "s", " ", "4", "0", "0">>],
              [kind |-> "malformed"]}

Init ==
    /\ HandlerIdle
    /\ AsideIdle
    /\ fin = <<>>
    /\ fout = None

\* The handler runs from its entry to its throw or to its await.
Begin(name, a, start) ==
    /\ tool' = name
    /\ args' = a
    /\ response' = None
    /\ IF start.kind = "throw"
       THEN /\ pc' = "done"
            /\ result' = start.error
            /\ local' = None
            /\ sent' = <<>>
       ELSE /\ pc' = "awaiting"
            /\ result' = None
            /\ local' = start.local
            /\ sent' = <<start.request>>
    /\ UNCHANGED <<fin, fout, aside>>

CallGetLatestRelease ==
    /\ pc = "idle"
    /\ \E a \in ReleaseArgs : Begin("get_latest_release", a, handleGetLatestReleaseStart(a))

CallCheckVersionExists ==
    /\ pc = "idle"
    /\ \E a \in VersionCheckArgs :
           Begin("check_maven_version_exists", a, handleCheckVersionExistsStart(a))

CallListVersions ==
    /\ pc = "idle"
    /\ \E a \in ListVersionsArgs : Begin("list_maven_versions", a, handleListVersionsStart(a))

\* default: throw new McpError(ErrorCode.MethodNotFound, ...)
CallUnknownTool ==
    /\ pc = "idle"
    /\ pc' = "done"
    /\ tool' = "unknown"
    /\ args' = Null
    /\ result' = [kind |-> "McpError", code |-> "MethodNotFound"]
    /\ UNCHANGED <<local, sent, response, fin, fout, aside>>

\* ---------------------------------- get_maven_latest_version (earlier revision)
\* The revision of the server whose tools are get_maven_latest_version and
\* check_maven_version_exists: it requests 100 rows without a sort directive
\* and picks the version with the greatest dot-separated numbers.

isValidMavenArgs(a) ==
    /\ TypeOf(a) = "object"
    /\ a # Null
    /\ TypeOf(a.dependency) = "string"

DigitValue(ch) == CHOOSE k \in 0..9 : DigitChars[k + 1] = ch

\* The value of a run of decimal digits.
RECURSIVE DecimalValue(_)
DecimalValue(chars) ==
    IF chars = <<>> THEN 0
    ELSE 10 * DecimalValue(SubSeq(chars, 1, Len(chars) - 1)) + DigitValue(chars[Len(chars)])

IsDigitRun(chars) == \A i \in 1..Len(chars) : chars[i] \in {DigitChars[k] : k \in 1..10}

\* Number(part) || 0 for a part of a version: the value of a run of digits,
\* with its sign when it has one, 0 for the empty string and for what Number
\* turns into NaN.  (Number also reads exponents, hexadecimal and surrounding
\* white space; the version strings of the model have none.)
NumberOrZero(part) ==
    IF IsDigitRun(part) THEN DecimalValue(part)
    ELSE IF Len(part) >= 2 /\ part[1] \in {"-", "+"} /\ IsDigitRun(Tail(part))
         THEN (IF part[1] = "-" THEN 0 - DecimalValue(Tail(part)) ELSE DecimalValue(Tail(part)))
    ELSE 0

\* a.split('.').map(Number), with aParts[i] || 0 applied
VersionParts(version) ==
    LET parts == Split(version, ".") IN [i \in 1..Len(parts) |-> NumberOrZero(parts[i])]

\* The comparator of versions.sort: bNum - aNum at the first position where
\* the numbers differ, 0 when there is none.
RECURSIVE CompareFrom(_, _, _)
CompareFrom(aParts, bParts, i) ==
    IF i > Len(aParts) /\ i > Len(bParts) THEN 0
    ELSE LET aNum == IF i <= Len(aParts) THEN aParts[i] ELSE 0
             bNum == IF i <= Len(bParts) THEN bParts[i] ELSE 0
         IN IF aNum # bNum THEN bNum - aNum ELSE CompareFrom(aParts, bParts, i + 1)

\* The comparator with its arguments exchanged: ascending.
CompareVersionsAscending(a, b) == CompareFrom(VersionParts(b), VersionParts(a), 1)

CompareVersions(a, b) == CompareFrom(VersionParts(a), VersionParts(b), 1)

\* Stable insertion of a version into a list already in order.
RECURSIVE InsertByVersion(_, _)
InsertByVersion(sorted, version) ==
    IF sorted = <<>> THEN <<version>>
    ELSE LET last == sorted[Len(sorted)] IN
         IF CompareVersions(last, version) > 0
         THEN Append(InsertByVersion(SubSeq(sorted, 1, Len(sorted) - 1), version), last)
         ELSE Append(sorted, version)

\* versions.sort((a, b) => ...)
RECURSIVE SortByVersionDesc(_)
SortByVersionDesc(versions) ==
    IF versions = <<>> THEN <<>>
    ELSE InsertByVersion(SortByVersionDesc(SubSeq(versions, 1, Len(versions) - 1)),
                         versions[Len(versions)])

handleGetLatestVersionStart(a) ==
    IF ~isValidMavenArgs(a) THEN Throw(InvalidParams)
    ELSE LET coord == parseMavenCoordinate(a.dependency.s) IN
         IF coord.kind # "coord" THEN Throw(coord)
         ELSE Await(SearchRequest(WithPackaging(QueryGA(coord), coord), RowsMany, SortAbsent),
                    [coord |-> coord])

handleGetLatestVersionFinish(l, resp) ==
    IF resp.kind = "axiosError" THEN {Content(ApiErrorText(resp), TRUE)}
    ELSE IF resp.kind = "malformed" THEN {Thrown("TypeError")}
    ELSE IF Len(resp.docs) = 0 THEN {Content(NoDependencyText(l.coord), TRUE)}
    ELSE LET versions == [i \in 1..Len(resp.docs) |-> resp.docs[i].v] IN
         {Content(SortByVersionDesc(versions)[1], FALSE)}

MavenArgs == {Args(d, Undefined, Undefined, Undefined) : d \in DependencyValues} \cup {Null}

CallGetLatestVersion ==
    /\ pc = "idle"
    /\ \E a \in MavenArgs : Begin("get_maven_latest_version", a, handleGetLatestVersionStart(a))

Finish(name, l, resp) ==
    CASE name = "get_latest_release"         -> handleGetLatestReleaseFinish(l, resp)
      [] name = "check_maven_version_exists" -> handleCheckVersionExistsFinish(l, resp)
      [] name = "list_maven_versions"        -> handleListVersionsFinish(l, resp)
      [] name = "get_maven_latest_version"   -> handleGetLatestVersionFinish(l, resp)

\* A failed search call issued once more before the handler gives up.
SearchSettlesRetrying ==
    /\ pc = "awaiting"
    /\ \E resp \in Responses(sent[1].rows) :
           /\ response' = resp
           /\ IF resp.kind = "axiosError" /\ Len(sent) < 2
              THEN /\ sent' = Append(sent, sent[1])
                   /\ pc' = "awaiting"
                   /\ result' = result
              ELSE /\ sent' = sent
                   /\ pc' = "done"
                   /\ result' \in Finish(tool, local, resp)
    /\ UNCHANGED <<tool, args, local, fin, fout, aside>>

\* The search call settles and the handler runs to its return or throw.
SearchSettles ==
    /\ pc = "awaiting"
    /\ \E resp \in Responses(sent[1].rows) :
           /\ response' = resp
           /\ result' \in Finish(tool, local, resp)
    /\ pc' = "done"
    /\ UNCHANGED <<tool, args, local, sent, fin, fout, aside>>

\* The result went to the caller; nothing of the invocation is kept.
Return ==
    /\ pc = "done"
    /\ pc' = "idle"
    /\ tool' = "none"
    /\ args' = None
    /\ local' = None
    /\ sent' = <<>>
    /\ response' = None
    /\ result' = None
    /\ UNCHANGED <<fin, fout, aside>>

Next ==
    \/ CallGetLatestRelease
    \/ CallCheckVersionExists
    \/ CallListVersions
    \/ CallUnknownTool
    \/ SearchSettles
    \/ Return

Spec == Init /\ [][Next]_vars

\* The earlier revision's get_maven_latest_version, called on its own.
NextLatestVersion == CallGetLatestVersion \/ SearchSettles \/ Return

SpecLatestVersion == Init /\ [][NextLatestVersion]_vars

\* The tools that answer with versions of the records found, of either revision.
NextSelect ==
    \/ CallGetLatestVersion
    \/ CallGetLatestRelease
    \/ CallListVersions
    \/ SearchSettles
    \/ Return

SpecSelect == Init /\ [][NextSelect]_vars

\* ------------------------------------------- parseMavenCoordinate, on its own

DepAlphabet == {"g", "a", ":"}

InitParse ==
    /\ HandlerIdle
    /\ AsideIdle
    /\ fin \in SeqsUpTo(DepAlphabet, MaxDepLen)
    /\ fout = None

ApplyParse ==
    /\ fout = None
    /\ fout' = parseMavenCoordinate(fin)
    /\ UNCHANGED <<pc, tool, args, local, sent, response, result, fin, aside>>

SpecParse == InitParse /\ [][ApplyParse]_vars

\* -------------------------------------------- isPreReleaseVersion, on its own

VerAlphabet == {"1", ".", "-", "a", "M", "r", "c", "C", "x"}

\* The version strings of the specification's examples and of the README.
VerExamples ==
    { <<"7", ".", "0", ".", "0", "-", "M", "6">>,
      <<"6", ".", "2", ".", "8">>,
      <<"3", ".", "1", ".", "0", "-", "S", "N", "A", "P", "S", "H", "O", "T">>,
      <<"2", ".", "5", ".", "0", "-", "R", "C", "1">>,
      <<"1", ".", "0", ".", "0", "-", "a", "l", "p", "h", "a">>,
      <<"4", ".", "0", ".", "0">>,
      <<"1", ".", "0", ".", "0", ".", "R", "C", "1">>,
      <<"1", ".", "0", ".", "0", "b", "e", "t", "a">>,
      <<"1", ".", "0", "-", "j", "r", "e", "-", "b", "e", "t", "a">>,
      <<"2", ".", "0", "-", "m", "i", "l", "e", "s", "t", "o", "n", "e">>,
      <<"1", ".", "0", "-", "s", "n", "a", "p">> }

InitPre ==
    /\ HandlerIdle
    /\ AsideIdle
    /\ fin \in SeqsUpTo(VerAlphabet, MaxVerLen) \cup VerExamples
    /\ fout = None

ApplyPre ==
    /\ fout = None
    /\ fout' = Bool(isPreReleaseVersion(fin))
    /\ UNCHANGED <<pc, tool, args, local, sent, response, result, fin, aside>>

SpecPre == InitPre /\ [][ApplyPre]_vars

\* ------------------------------------------------ the version sort, on its own

\* Version strings: the specification's examples (one with a non-numeric
\* component, one a component short), and strings with a signed and with an
\* empty component.
SemverVersions ==
    { <<"1", ".", "9", ".", "0">>,
      <<"1", ".", "1", "0", ".", "0">>,
      <<"2", ".", "0", ".", "0">>,
      <<"1", ".", "0", ".", "0", "-", "b", "e", "t", "a">>,
      <<"1", ".", "0", ".", "0">>,
      <<"1", ".", "0">>,
      <<"1", ".", "-", "1">>,
      <<"1", ".", ".", "1">> }

InitSemver ==
    /\ HandlerIdle
    /\ AsideIdle
    /\ fin \in {l \in SeqsUpTo(SemverVersions, MaxVersions) : Len(l) > 0}
    /\ fout = None

\* versions.sort((a, b) => ...)[0]
ApplySemver ==
    /\ fout = None
    /\ fout' = [kind |-> "sorted", versions |-> SortByVersionDesc(fin),
                latestVersion |-> SortByVersionDesc(fin)[1]]
    /\ UNCHANGED <<pc, tool, args, local, sent, response, result, fin, aside>>

SpecSemver == InitSemver /\ [][ApplySemver]_vars

\* ------------------------------------------- invocations side by side
\* The request handler is async: a second tools/call may be dispatched while
\* the first is suspended at its await.  Each invocation has its own args,
\* coord, query and response (consts and lets of the handler's activation).

\* case 'get_latest_release': ... up to the handler's throw or await.
Start(name, a) ==
    CASE name = "get_latest_release"         -> handleGetLatestReleaseStart(a)
      [] name = "check_maven_version_exists" -> handleCheckVersionExistsStart(a)
      [] name = "list_maven_versions"        -> handleListVersionsStart(a)

\* The calls issued side by side.
ConcCalls ==
    { [tool |-> "get_latest_release",
       args |-> Args(Str(<<"g", ":", "a">>), Undefined, Undefined, Undefined)],
      [tool |-> "get_latest_release",
       args |-> Args(Str(<<"g", ":", "a", ":", "1", ":", "j", ":", "c">>), Undefined,
                     Undefined, Bool(FALSE))],
      [tool |-> "check_maven_version_exists",
       args |-> Args(Str(<<"g", ":", "a", ":", "1">>), Undefined, Undefined, Undefined)],
      [tool |-> "list_maven_versions",
       args |-> Args(Str(<<"g", ":", "a">>), Undefined, Num(1), Undefined)],
      [tool |-> "list_maven_versions",
       args |-> Args(Str(<<"g", ":", "a", ":", ":", "j">>), Undefined, Num(2), Bool(FALSE))],
      [tool |-> "list_maven_versions",
       args |-> Args(Str(<<"g">>), Undefined, Undefined, Undefined)] }

\* How their search calls settle.
ConcResponses(rows) ==
    {resp \in Responses(rows) :
        \/ resp.kind = "axiosError" /\ resp.msg = Undefined
        \/ resp.kind = "ok" /\ resp.docs \in
              { <<>>,
                <<[v |-> <<"1", ".", "0">>, timestamp |-> Num(1000)]>>,
                <<[v |-> <<"1", ".", "0">>, timestamp |-> Num(1000)],
                  [v |-> <<"2", ".", "0">>, timestamp |-> Num(90000000)]>>,
                <<[v |-> <<"2", ".", "0", "-", "R", "C">>, timestamp |-> Num(90000000)],
                  [v |-> <<"1", ".", "0">>, timestamp |-> Num(1000)]>> }}

\* The locals of another activation of the same handler, as if coord and the
\* options were kept in fields of the server object.
LocalsOfOther(i) ==
    IF \E j \in Slots \ {i} : calls[j].tool = calls[i].tool /\ calls[j].local # None
    THEN calls[CHOOSE j \in Slots \ {i} :
                   calls[j].tool = calls[i].tool /\ calls[j].local # None].local
    ELSE calls[i].local

\* coord, version, depth, excludePreReleases of the activation in slot i.
LocalsOf(i) == calls[i].local

ConcCall ==
    \E i \in Slots :
        /\ calls[i].pc = "idle"
        /\ \E c \in ConcCalls :
               LET start == Start(c.tool, c.args) IN
               calls' = [calls EXCEPT ![i] =
                   IF start.kind = "throw"
                   THEN [IdleCall EXCEPT !.pc = "done", !.tool = c.tool, !.args = c.args,
                                         !.result = start.error]
                   ELSE [IdleCall EXCEPT !.pc = "awaiting", !.tool = c.tool, !.args = c.args,
                                         !.local = start.local, !.sent = <<start.request>>]]
        /\ UNCHANGED <<pc, tool, args, local, sent, response, result, fin, fout, net>>

ConcSettle ==
    \E i \in Slots :
        /\ calls[i].pc = "awaiting"
        /\ \E resp \in ConcResponses(calls[i].sent[1].rows) :
           \E r \in Finish(calls[i].tool, LocalsOf(i), resp) :
               calls' = [calls EXCEPT ![i] =
                   [@ EXCEPT !.pc = "done", !.response = resp, !.result = r,
                             !.overlapped = \E j \in Slots \ {i} : calls[j].pc = "awaiting"]]
        /\ UNCHANGED <<pc, tool, args, local, sent, response, result, fin, fout, net>>

ConcReturn ==
    \E i \in Slots :
        /\ calls[i].pc = "done"
        /\ calls' = [calls EXCEPT ![i] = IdleCall]
        /\ UNCHANGED <<pc, tool, args, local, sent, response, result, fin, fout, net>>

NextConc == ConcCall \/ ConcSettle \/ ConcReturn

SpecConc == Init /\ [][NextConc]_vars

\* ------------------------------------------------------ run(): the transport
\* Without a port the server is connected to a StdioServerTransport, which
\* hands every message read from stdin to the server's request handlers.  With
\* a port, GET /sse creates an SSEServerTransport and connects the server to
\* it, and POST /mcp answers the HTTP request; the handler of POST /mcp does
\* nothing else with the request.

ToolNames == {"get_latest_release", "check_maven_version_exists", "list_maven_versions"}

\* The next message id of the client.
NextId == Len(net.received) + 1

\* app.get('/sse', ...): currentTransport = new SSEServerTransport('/mcp', res),
\* this.server.connect(transport); a client may open /sse while another
\* connection is open.
SseConnect ==
    /\ net.mode = "sse"
    /\ net.opened < MaxConnections
    /\ net' = [net EXCEPT !.opened = @ + 1,
                          !.open = @ \cup {net.opened + 1},
                          !.currentTransport = net.opened + 1,
                          !.connected = net.opened + 1]
    /\ UNCHANGED <<pc, tool, args, local, sent, response, result, fin, fout, calls>>

\* res.on('close', ...) of connection c: if (currentTransport) { server.close();
\* currentTransport = undefined }.  currentTransport is the one variable of
\* run(), whichever connection set it last.  server.close() closes the
\* transport the server is connected to; whether that ends the SSE response of
\* a connection still open is the SDK's doing: either outcome.
SseClose ==
    /\ net.mode = "sse"
    /\ \E c \in net.open :
           IF net.currentTransport # 0
           THEN \E ended \in {{}, {net.connected} \cap (net.open \ {c})} :
                    net' = [net EXCEPT !.open = (@ \ {c}) \ ended,
                                       !.closedUnder = @ \cup (net.open \ {c}),
                                       !.currentTransport = 0,
                                       !.connected = 0]
           ELSE net' = [net EXCEPT !.open = @ \ {c}]
    /\ UNCHANGED <<pc, tool, args, local, sent, response, result, fin, fout, calls>>

\* app.post('/mcp', express.json(), ...) on a tools/call message: status 400
\* without currentTransport, else the JSON body {message: 'Message received'}.
\* anyOpen notes whether an SSE connection was open when the POST arrived.
PostMcp ==
    /\ net.mode = "sse"
    /\ NextId <= MaxMessages
    /\ \E name \in ToolNames :
           net' = [net EXCEPT !.received =
                      Append(@, [id |-> NextId, tool |-> name, via |-> "post",
                                 anyOpen |-> net.open # {},
                                 status |-> IF net.currentTransport # 0 THEN 200 ELSE 400])]
    /\ UNCHANGED <<pc, tool, args, local, sent, response, result, fin, fout, calls>>

\* A tools/call message read from stdin by the StdioServerTransport: handed to
\* the CallToolRequestSchema handler.
StdioMessage ==
    /\ net.mode = "stdio"
    /\ NextId <= MaxMessages
    /\ \E name \in ToolNames :
           net' = [net EXCEPT !.received =
                       Append(@, [id |-> NextId, tool |-> name, via |-> "stdin",
                                  anyOpen |-> FALSE, status |-> 0]),
                   !.inbox = @ \cup {NextId}]
    /\ UNCHANGED <<pc, tool, args, local, sent, response, result, fin, fout, calls>>

\* The request handler has run for a delivered message and its result goes
\* back over the transport.
TransportAnswer ==
    /\ \E id \in net.inbox :
           net' = [net EXCEPT !.inbox = @ \ {id}, !.answered = @ \cup {id}]
    /\ UNCHANGED <<pc, tool, args, local, sent, response, result, fin, fout, calls>>

InitTransport ==
    /\ HandlerIdle
    /\ fin = <<>>
    /\ fout = None
    /\ calls = [i \in Slots |-> IdleCall]
    /\ net \in {NetStart("stdio"), NetStart("sse")}

NextTransport == SseConnect \/ SseClose \/ PostMcp \/ StdioMessage \/ TransportAnswer

\* The event loop runs every handler that has a message to handle.
SpecTransport ==
    InitTransport /\ [][NextTransport]_vars /\ WF_vars(TransportAnswer)

\* ------------------------------------------- a handler, statement group by
\* statement group.  pc is the group the activation is in: "Validating" (the
\* argument check, parseMavenCoordinate, the version check), "Querying" (the
\* query is built and the search call awaited), "Selecting" (the docs list is
\* read, filtered, sorted, sliced), "Formatting" (the payload text is built),
\* "Done" (a success payload is returned), "Errored" (a throw, or the return of
\* an error-flagged payload).

StageCalls ==
    {[tool |-> "get_latest_release", args |-> a] : a \in ReleaseArgs}
        \cup {[tool |-> "check_maven_version_exists", args |-> a] : a \in VersionCheckArgs}
        \cup {[tool |-> "list_maven_versions", args |-> a] : a \in ListVersionsArgs}

StageResponses(rows) ==
    ConcResponses(rows)
        \cup {[kind |-> "malformed"],
              [kind |-> "ok", docs |-> <<[v |-> <<"3", ".", "0">>, timestamp |-> Undefined]>>]}

\* A return or throw out of the statements that read and filter the docs list.
LeavesInSelecting(r) ==
    \/ r.kind = "Error" /\ r.name = "TypeError"
    \/ r.kind = "content" /\ r.isError

StageCall ==
    /\ pc = "idle"
    /\ \E c \in StageCalls :
           /\ tool' = c.tool
           /\ args' = c.args
    /\ pc' = "Validating"
    /\ UNCHANGED <<local, sent, response, result, fin, fout, aside>>

StageValidate ==
    /\ pc = "Validating"
    /\ LET start == Start(tool, args) IN
       IF start.kind = "throw"
       THEN /\ pc' = "Errored"
            /\ result' = start.error
            /\ UNCHANGED <<local, sent>>
       ELSE /\ pc' = "Querying"
            /\ local' = start.local
            /\ sent' = <<start.request>>
            /\ UNCHANGED result
    /\ UNCHANGED <<tool, args, response, fin, fout, aside>>

\* The search call failed and is issued once more.
StageSettleRetrying ==
    /\ pc = "Querying"
    /\ \E resp \in StageResponses(sent[1].rows) :
           /\ response' = resp
           /\ IF resp.kind = "axiosError"
              THEN IF Len(sent) < 2
                   THEN /\ pc' = "Querying"
                        /\ sent' = Append(sent, sent[1])
                        /\ UNCHANGED result
                   ELSE /\ pc' = "Errored"
                        /\ result' \in Finish(tool, local, resp)
                        /\ UNCHANGED sent
              ELSE /\ pc' = "Selecting"
                   /\ UNCHANGED <<result, sent>>
    /\ UNCHANGED <<tool, args, local, fin, fout, aside>>

\* The awaited search call settles: rejected (the catch block returns the
\* error text) or fulfilled.
StageSettle ==
    /\ pc = "Querying"
    /\ \E resp \in StageResponses(sent[1].rows) :
           /\ response' = resp
           /\ IF resp.kind = "axiosError"
              THEN /\ pc' = "Errored"
                   /\ result' \in Finish(tool, local, resp)
              ELSE /\ pc' = "Selecting"
                   /\ UNCHANGED result
    /\ UNCHANGED <<tool, args, local, sent, fin, fout, aside>>

StageSelect ==
    /\ pc = "Selecting"
    /\ IF \E r \in Finish(tool, local, response) : LeavesInSelecting(r)
       THEN /\ pc' = "Errored"
            /\ result' \in {r \in Finish(tool, local, response) : LeavesInSelecting(r)}
       ELSE /\ pc' = "Formatting"
            /\ UNCHANGED result
    /\ UNCHANGED <<tool, args, local, sent, response, fin, fout, aside>>

StageFormat ==
    /\ pc = "Formatting"
    /\ \E r \in Finish(tool, local, response) :
           /\ result' = r
           /\ pc' = IF r.kind = "content" THEN "Done" ELSE "Errored"
    /\ UNCHANGED <<tool, args, local, sent, response, fin, fout, aside>>

StageReturn ==
    /\ pc \in {"Done", "Errored"}
    /\ pc' = "idle"
    /\ tool' = "none"
    /\ args' = None
    /\ local' = None
    /\ sent' = <<>>
    /\ response' = None
    /\ result' = None
    /\ UNCHANGED <<fin, fout, aside>>

NextStages ==
    StageCall \/ StageValidate \/ StageSettle \/ StageSelect \/ StageFormat \/ StageReturn

SpecStages == Init /\ [][NextStages]_vars

\* ------------------------------------ one tool, two dependency strings
\* The same tool run on two argument objects that differ in the dependency
\* string only, each with the same settlement of its search call.

\* What an invocation sends and what it can return or throw.
Invocation(name, a, resp) ==
    LET start == Start(name, a) IN
    IF start.kind = "throw"
    THEN [sent |-> <<>>, results |-> {start.error}]
    ELSE [sent |-> <<start.request>>, results |-> Finish(name, start.local, resp)]

PairDependencies ==
    { <<"g", ":", "a", ":", "1", ":", "j">>,
      <<"g", ":", "a", ":", "1", ":", "j", ":", "c">>,
      <<"g", ":", "a", ":", "1", ":", "j", ":", "d">>,
      <<"g", ":", "a", ":", "1", ":", "j", ":", "c", ":", "x">>,
      <<"g", ":", "a", ":", "1", ":", "w", ":", "c">>,
      <<"g", ":", "a", ":", ":", ":", "c">>,
      <<"g", ":", "a">> }

PairInputs ==
    {[tool |-> name, first |-> d1, second |-> d2, excludePreReleases |-> e, response |-> resp] :
        name \in ToolNames, d1 \in PairDependencies, d2 \in PairDependencies,
        e \in {Undefined, Bool(FALSE)},
        resp \in ConcResponses(RowsOne)}

PairArgs(in, dependency) ==
    Args(Str(dependency),
         IF in.tool = "check_maven_version_exists" THEN Str(<<"2">>) ELSE Undefined,
         Undefined,
         IF in.tool = "check_maven_version_exists" THEN Undefined ELSE in.excludePreReleases)

InitPair ==
    /\ HandlerIdle
    /\ AsideIdle
    /\ fin \in PairInputs
    /\ fout = None

ApplyPair ==
    /\ fout = None
    /\ fout' = [kind |-> "pair",
                first  |-> Invocation(fin.tool, PairArgs(fin, fin.first), fin.response),
                second |-> Invocation(fin.tool, PairArgs(fin, fin.second), fin.response)]
    /\ UNCHANGED <<pc, tool, args, local, sent, response, result, fin, aside>>

SpecPair == InitPair /\ [][ApplyPair]_vars

\* ------------------------------------------------ the query, on its own
\* The q parameter a tool sends for a dependency string and a version
\* argument, among them values that hold a double quote.

HostileVersion == <<"1", "\"", " ", "O", "R", " ", "v", ":", "\"", "2">>

HostileDependency == <<"g", "\"", ":", "a">>

QueryInputs ==
    {[tool |-> name, dependency |-> d, version |-> v] :
        name \in ToolNames,
        d \in DependencyStrings \cup PairDependencies \cup {HostileDependency},
        v \in {Undefined, Str(<<"2">>), Str(HostileVersion)}}

InitQuery ==
    /\ HandlerIdle
    /\ AsideIdle
    /\ fin \in {in \in QueryInputs :
                   in.tool = "check_maven_version_exists" \/ in.version = Undefined}
    /\ fout = None

\* The handler up to its await: the params of the request, if it sends one.
ApplyQuery ==
    /\ fout = None
    /\ LET start == Start(fin.tool, Args(Str(fin.dependency), fin.version, Undefined, Undefined))
       IN fout' = IF start.kind = "throw" THEN [kind |-> "throw", error |-> start.error]
                  ELSE [kind |-> "request", q |-> start.request.q]
    /\ UNCHANGED <<pc, tool, args, local, sent, response, result, fin, aside>>

SpecQuery == InitQuery /\ [][ApplyQuery]_vars

\* ------------------------------------------------------------------ claims

\* The colon-delimited segments of a string, stated by the positions of the
\* colons: segment k lies between the (k-1)-th and the k-th colon.
Seps(chars) == {i \in 1..Len(chars) : chars[i] = ":"}

NumSegments(chars) == Cardinality(Seps(chars)) + 1

NthSep(chars, k) ==
    IF k = 0 THEN 0
    ELSE IF k > Cardinality(Seps(chars)) THEN Len(chars) + 1
    ELSE CHOOSE i \in Seps(chars) : Cardinality({j \in Seps(chars) : j <= i}) = k

Segment(chars, k) == SubSeq(chars, NthSep(chars, k - 1) + 1, NthSep(chars, k) - 1)

NumNonEmptySegments(chars) ==
    Cardinality({k \in 1..NumSegments(chars) : Len(Segment(chars, k)) > 0})

\* Segment k as the parser should report it: absent when there is no such segment.
SegmentOrUndefined(chars, k) ==
    IF k <= NumSegments(chars) THEN Str(Segment(chars, k)) ELSE Undefined

\* C1: parseMavenCoordinate fails with InvalidParams for every input that has
\* fewer than 2 non-empty colon-delimited segments, and every coordinate it
\* returns has a non-empty groupId and a non-empty artifactId.
C1_FewNonEmptySegmentsRejected ==
    fout # None =>
        /\ NumNonEmptySegments(fin) < 2 => fout = InvalidParams
        /\ fout.kind = "coord" => Len(fout.groupId.s) > 0 /\ Len(fout.artifactId.s) > 0

\* C2: for every input with at least 2 colon-delimited segments the parse
\* succeeds; groupId, artifactId, version, packaging and classifier are segments
\* 1 to 5 verbatim, and a field whose segment is not present is undefined.
C2_PositionalMapping ==
    (fout # None /\ NumSegments(fin) >= 2) =>
        /\ fout.kind = "coord"
        /\ fout.groupId = Str(Segment(fin, 1))
        /\ fout.artifactId = Str(Segment(fin, 2))
        /\ fout.version = SegmentOrUndefined(fin, 3)
        /\ fout.packaging = SegmentOrUndefined(fin, 4)
        /\ fout.classifier = SegmentOrUndefined(fin, 5)

\* C2 witness: a three-segment input was parsed, its version is the non-empty
\* third segment and its packaging is absent.
C2_Witness ==
    /\ fout # None
    /\ fout.kind = "coord"
    /\ NumSegments(fin) = 3
    /\ fout.version = Str(<<"a">>)
    /\ fout.packaging = Undefined

Digits == {"0", "1", "2", "3", "4", "5", "6", "7", "8", "9"}

\* Length of the numeric core: the longest prefix made of digits and dots.
NumericCoreLen(chars) ==
    CHOOSE n \in 0..Len(chars) :
        /\ \A k \in 1..n : chars[k] \in Digits \cup {"."}
        /\ n < Len(chars) => chars[n + 1] \notin Digits \cup {"."}

Lower(ch) ==
    IF \E k \in 1..26 : UpperCase[k] = ch
    THEN LowerCase[CHOOSE k \in 1..26 : UpperCase[k] = ch]
    ELSE ch

QualifierTokens == {Alternatives[n] : n \in 1..Len(Alternatives)}

\* Position i holds a hyphen and one of the tokens follows it at once, in any case.
HyphenThenToken(chars, i) ==
    /\ i <= Len(chars)
    /\ chars[i] = "-"
    /\ \E tok \in QualifierTokens :
           /\ i + Len(tok) <= Len(chars)
           /\ \A k \in 1..Len(tok) : Lower(chars[i + k]) = tok[k]

\* C3, as stated: isPreReleaseVersion(v) is true exactly when the hyphen that
\* immediately follows the numeric core of v is immediately followed, in any
\* case, by one of the tokens alpha, a, beta, b, milestone, m, rc, cr, snapshot.
C3_HyphenAfterNumericCoreOnly ==
    fout # None => (fout.b <=> HyphenThenToken(fin, NumericCoreLen(fin) + 1))

\* C3, amended: isPreReleaseVersion(v) is true exactly when v has a hyphen,
\* anywhere in the string, that is immediately followed, in any case, by one of
\* the tokens; a version without such a hyphen is stable; 7.0.0-M6,
\* 3.1.0-SNAPSHOT, 2.5.0-RC1 and 1.0.0-alpha are pre-release, and 6.2.8, 4.0.0,
\* 1.0.0.RC1 and 1.0.0beta are not.
C3_AnyHyphenThenToken ==
    fout # None =>
        /\ fout.b <=> \E i \in 1..Len(fin) : HyphenThenToken(fin, i)
        /\ fin \in { <<"7", ".", "0", ".", "0", "-", "M", "6">>,
                     <<"3", ".", "1", ".", "0", "-", "S", "N", "A", "P", "S", "H", "O", "T">>,
                     <<"2", ".", "5", ".", "0", "-", "R", "C", "1">>,
                     <<"1", ".", "0", ".", "0", "-", "a", "l", "p", "h", "a">> } => fout.b
        /\ fin \in { <<"6", ".", "2", ".", "8">>,
                     <<"4", ".", "0", ".", "0">>,
                     <<"1", ".", "0", ".", "0", ".", "R", "C", "1">>,
                     <<"1", ".", "0", ".", "0", "b", "e", "t", "a">> } => ~fout.b

\* C3 witness: a version was classified pre-release on a hyphen that does not
\* immediately follow its numeric core.
C3_Witness ==
    /\ fout # None
    /\ fin = <<"1", ".", "0", "-", "j", "r", "e", "-", "b", "e", "t", "a">>
    /\ fout.b
    /\ ~HyphenThenToken(fin, NumericCoreLen(fin) + 1)

\* ------------------------------------------- claims about the tool handlers

Release == "get_latest_release"

CheckExists == "check_maven_version_exists"

ListVersions == "list_maven_versions"

\* The handler of the named tool has finished on a response with a docs list.
FinishedOnDocs(name) == pc = "done" /\ tool = name /\ response.kind = "ok"

\* The handler returned a text payload without the error flag.
Succeeded == result.kind = "content" /\ ~result.isError

\* A version carrying a pre-release qualifier, as C3 (amended) states it.
IsPreRelease(version) == \E i \in 1..Len(version) : HyphenThenToken(version, i)

\* The call asks for pre-releases to be excluded: the flag is true or omitted.
Excluding == args.excludePreReleases \in {Undefined, Bool(TRUE)}

\* The candidates that remain after the optional pre-release filter, in the
\* order of the response.
Remaining ==
    IF Excluding THEN SelectSeq(response.docs, LAMBDA doc : ~IsPreRelease(doc.v))
    ELSE response.docs

AllHaveTimestamps(docs) == \A i \in 1..Len(docs) : docs[i].timestamp.t = "number"

\* The place of candidate i when the candidates are ordered by publish time,
\* latest first, candidates of equal time in their original order.
Rank(docs, i) ==
    1 + Cardinality({j \in 1..Len(docs) :
                        \/ docs[j].timestamp.n > docs[i].timestamp.n
                        \/ docs[j].timestamp.n = docs[i].timestamp.n /\ j < i})

\* The call's dependency has a non-empty groupId and a non-empty artifactId.
WellFormedCoordinate ==
    /\ NumSegments(args.dependency.s) >= 2
    /\ Len(Segment(args.dependency.s, 1)) > 0
    /\ Len(Segment(args.dependency.s, 2)) > 0

StartsWith(chars, prefix) ==
    Len(chars) >= Len(prefix) /\ SubSeq(chars, 1, Len(prefix)) = prefix

\* C4: for any non-empty candidate list, in whatever order the records arrive,
\* get_latest_release returns the version of the record with the greatest
\* publish timestamp among the candidates remaining after the optional
\* pre-release filter, the first of them in the original order on a tie.
C4_LatestReleaseIsMostRecentlyPublished ==
    (/\ FinishedOnDocs(Release)
     /\ WellFormedCoordinate
     /\ AllHaveTimestamps(response.docs)
     /\ Len(Remaining) > 0) =>
        /\ Succeeded
        /\ \A i \in 1..Len(Remaining) : Rank(Remaining, i) = 1 => result.text = Remaining[i].v

\* The lines of a listing text: an empty text has none.
ListedLines(text) == IF text = <<>> THEN <<>> ELSE Split(text, "\n")

\* The version a listing line is for: what precedes its " (".
VersionOfLine(line) == Split(line, " ")[1]

Min(a, b) == IF a < b THEN a ELSE b

\* The whole number of entries a depth asks for: the given depth, 15 when omitted.
EntriesAsked == IF args.depth = Undefined THEN 15 ELSE args.depth.n

NoStablePrefix ==
    <<"N", "o", " ", "s", "t", "a", "b", "l", "e", " ", "r", "e", "l", "e", "a", "s", "e",
      "s", " ", "f", "o", "u", "n", "d">>

NoDependencyPrefix ==
    <<"N", "o", " ", "M", "a", "v", "e", "n", " ", "d", "e", "p", "e", "n", "d", "e", "n",
      "c", "y", " ", "f", "o", "u", "n", "d">>

AllPreReleases(docs) == \A i \in 1..Len(docs) : IsPreRelease(docs[i].v)

\* C6: in get_latest_release and list_maven_versions with excludePreReleases
\* true, a non-empty candidate set of pre-releases only yields the error-flagged
\* "No stable releases found ..." text, never a version; the "No Maven
\* dependency found ..." text is another text, produced exactly when the
\* search returns zero candidates.
C6_NoStableReleasesIsDistinct ==
    (pc = "done" /\ tool \in {Release, ListVersions} /\ result.kind = "content") =>
        /\ (/\ response.kind = "ok"
            /\ Excluding
            /\ Len(response.docs) > 0
            /\ AllPreReleases(response.docs)) =>
               /\ result.isError
               /\ StartsWith(result.text, NoStablePrefix)
               /\ ~StartsWith(result.text, NoDependencyPrefix)
        /\ StartsWith(result.text, NoDependencyPrefix) <=>
               (response.kind = "ok" /\ Len(response.docs) = 0)
        /\ StartsWith(result.text, NoDependencyPrefix) => result.isError

\* C6 witness: list_maven_versions, excluding pre-releases, finished on two
\* records that are both pre-releases with the stable-exhausted text.
C6_Witness ==
    /\ FinishedOnDocs(ListVersions)
    /\ Excluding
    /\ Len(response.docs) = 2
    /\ AllPreReleases(response.docs)
    /\ result.kind = "content"
    /\ result.isError
    /\ StartsWith(result.text, NoStablePrefix)

\* The calendar day of the publish times of the model, as the listing prints it.
ExpectedDate(ms) ==
    IF ms < 86400000 THEN <<"1", "9", "7", "0", "-", "0", "1", "-", "0", "1">>
    ELSE <<"1", "9", "7", "0", "-", "0", "1", "-", "0", "2">>

ExpectedLine(doc) == doc.v \o <<" ", "(">> \o ExpectedDate(doc.timestamp.n) \o <<")">>

\* C7: a successful list_maven_versions call over n candidates remaining after
\* filtering (each with a publish timestamp, depth at least 1) returns exactly
\* min(depth, n) lines "<version> (<yyyy-mm-dd>)", one per candidate, ordered by
\* non-increasing publish timestamp with equal timestamps in their original
\* order: line r is the line of the candidate of rank r, so the lines are the
\* min(depth, n) most recently published candidates.
C7_ListingIsTheMostRecentInOrder ==
    (/\ FinishedOnDocs(ListVersions)
     /\ Succeeded
     /\ EntriesAsked >= 1
     /\ AllHaveTimestamps(Remaining)) =>
        LET lines == ListedLines(result.text) IN
        /\ Len(lines) = Min(EntriesAsked, Len(Remaining))
        /\ \A i \in 1..Len(Remaining) :
               Rank(Remaining, i) <= Len(lines) =>
                   lines[Rank(Remaining, i)] = ExpectedLine(Remaining[i])

\* C7 witness: depth 2 over three remaining candidates that arrived oldest
\* first; the listing has two lines.
C7_Witness ==
    /\ FinishedOnDocs(ListVersions)
    /\ Succeeded
    /\ args.depth = Num(2)
    /\ Len(Remaining) = 3
    /\ AllHaveTimestamps(Remaining)
    /\ Remaining[1].timestamp.n < Remaining[3].timestamp.n
    /\ Len(ListedLines(result.text)) = 2

\* C8: list_maven_versions uses depth 15 when depth is omitted and rejects with
\* InvalidParams, before any search request, every call (here: with a
\* well-formed coordinate) whose depth is a number outside 1..100.
C8_DepthOutOfRangeRejected ==
    (tool = ListVersions /\ pc \in {"awaiting", "done"}) =>
        /\ (pc = "awaiting" /\ args.depth = Undefined) => local.depth = Num(15)
        /\ (/\ args # Null
            /\ args.dependency.t = "string"
            /\ WellFormedCoordinate
            /\ args.depth.t = "number"
            /\ (args.depth.n < 1 \/ args.depth.n > 100
                    \/ (args.depth.n = 100 /\ args.depth.half))) =>
               /\ sent = <<>>
               /\ pc = "done" => result = InvalidParams

\* The version a check_maven_version_exists call supplies: the third segment
\* of the coordinate when it is there and not empty, else the version argument.
EmbeddedVersion == SegmentOrUndefined(args.dependency.s, 3)

HasEmbeddedVersion == EmbeddedVersion.t = "string" /\ Len(EmbeddedVersion.s) > 0

HasVersionArgument == args.version.t = "string" /\ Len(args.version.s) > 0

\* The query for a coordinate and a version, clause by clause.
ExpectedCheckQuery(version) ==
    LET dep == args.dependency.s IN
    <<"g", ":", "\"">> \o Segment(dep, 1) \o <<"\"", " ", "A", "N", "D", " ">>
        \o <<"a", ":", "\"">> \o Segment(dep, 2) \o <<"\"", " ", "A", "N", "D", " ">>
        \o <<"v", ":", "\"">> \o version \o <<"\"">>
        \o (IF NumSegments(dep) >= 4 /\ Len(Segment(dep, 4)) > 0
            THEN <<" ", "A", "N", "D", " ", "p", ":", "\"">> \o Segment(dep, 4) \o <<"\"">>
            ELSE <<>>)

\* C9: in check_maven_version_exists, when the coordinate carries a version in
\* its third segment the version in the search query is that one, also when a
\* different version argument is supplied; the version argument is used only
\* when the coordinate carries no version.
C9_EmbeddedVersionTakesPrecedence ==
    (tool = CheckExists /\ Len(sent) > 0) =>
        sent[1].q = ExpectedCheckQuery(IF HasEmbeddedVersion THEN EmbeddedVersion.s
                                                            ELSE args.version.s)

\* C9 witness: the coordinate g:a:1 was checked with the version argument 2
\* and a request was issued.
C9_Witness ==
    /\ tool = CheckExists
    /\ Len(sent) = 1
    /\ args.dependency = Str(<<"g", ":", "a", ":", "1">>)
    /\ args.version = Str(<<"2">>)

\* C10: check_maven_version_exists fails with InvalidParams, without issuing a
\* search request, whenever neither the third segment of the coordinate nor
\* the version argument supplies a non-empty version.
C10_NoVersionIsInvalidParams ==
    (/\ tool = CheckExists
     /\ ~(args # Null /\ args.dependency.t = "string" /\ HasEmbeddedVersion)
     /\ ~(args # Null /\ HasVersionArgument)) =>
        /\ pc = "done"
        /\ result = InvalidParams
        /\ sent = <<>>

\* C10 witness: the coordinate g:a::j, whose third segment is empty, was checked
\* with an empty version argument and the call failed.
C10_Witness ==
    /\ tool = CheckExists
    /\ pc = "done"
    /\ args # Null
    /\ args.dependency = Str(<<"g", ":", "a", ":", ":", "j">>)
    /\ args.version = Str(<<>>)
    /\ result = InvalidParams
    /\ sent = <<>>

TextTrue == <<"t", "r", "u", "e">>

TextFalse == <<"f", "a", "l", "s", "e">>

\* C11: every check_maven_version_exists call whose search request completes
\* with a docs list returns a text payload without the error flag that is
\* exactly "true" or "false": "true" if and only if the search returned at
\* least one record, "false" (no not-found error text) when it returned none.
C11_ExistsIsTrueOrFalse ==
    FinishedOnDocs(CheckExists) =>
        /\ Succeeded
        /\ result.text \in {TextTrue, TextFalse}
        /\ result.text = TextTrue <=> Len(response.docs) > 0

\* C11 witness: the search for a version returned no record and the call
\* returned the text "false" without the error flag.
C11_Witness ==
    /\ FinishedOnDocs(CheckExists)
    /\ Len(response.docs) = 0
    /\ result = Content(TextFalse, FALSE)

Tools == {Release, CheckExists, ListVersions}

\* The arguments are an object whose dependency is a string.
HasDependencyString == args # Null /\ args # None /\ args.dependency.t = "string"

\* Input that is valid on every reading: a coordinate with a non-empty groupId
\* and artifactId, a flag that is a boolean or omitted, a depth that is a whole
\* number in 1..100 or omitted, and for the existence check a version that is
\* a non-empty string in the coordinate or in the argument.
PlainlyValidInput ==
    /\ HasDependencyString
    /\ WellFormedCoordinate
    /\ args.excludePreReleases.t \in {"undefined", "boolean"}
    /\ \/ args.depth = Undefined
       \/ args.depth.t = "number" /\ ~args.depth.half /\ args.depth.n \in 1..100
    /\ args.version.t \in {"undefined", "string"}
    /\ tool = CheckExists => (HasEmbeddedVersion \/ HasVersionArgument)

\* Input that is invalid on every reading: no arguments object, a dependency
\* that is not a string or has a single segment, an argument of the wrong type.
PlainlyInvalidInput ==
    \/ ~HasDependencyString
    \/ NumSegments(args.dependency.s) < 2
    \/ (tool \in {Release, ListVersions} /\ args.excludePreReleases.t \notin {"undefined", "boolean"})
    \/ (tool = ListVersions /\ args.depth.t \notin {"undefined", "number"})
    \/ (tool = CheckExists /\ args.version.t \notin {"undefined", "string"})

\* C12: every tool invocation issues at most one search request: one when its
\* input validation and coordinate parsing succeed, none when they fail (the
\* invocation then ends with a protocol error); a failed request is not
\* issued again.
C12_AtMostOneSearchRequest ==
    /\ Len(sent) <= 1
    /\ (tool \in Tools /\ pc \in {"awaiting", "done"}) =>
           /\ Len(sent) = 0 <=> (pc = "done" /\ result.kind = "McpError")
           /\ PlainlyValidInput => Len(sent) = 1
           /\ PlainlyInvalidInput => Len(sent) = 0
    /\ (pc = "done" /\ response # None /\ response.kind = "axiosError") => Len(sent) = 1
    /\ pc = "awaiting" => (Len(sent) = 1 /\ response = None)

\* C12 witness: an invocation ended on a failed search call with the one
\* request it had issued.
C12_Witness ==
    /\ pc = "done"
    /\ tool = Release
    /\ response # None
    /\ response.kind = "axiosError"
    /\ Len(sent) = 1

\* The search call of the invocation failed: it was rejected (network error,
\* non-2xx status), or its body lacks the docs list, or a record of the docs
\* list lacks its publish timestamp.
SearchFailed ==
    /\ response # None
    /\ \/ response.kind \in {"axiosError", "malformed"}
       \/ response.kind = "ok" /\ ~AllHaveTimestamps(response.docs)

\* C13: every failure of the search call (network error, non-2xx response, a
\* body without the docs list or without a usable timestamp) ends the
\* invocation with an error-flagged text payload, never with a thrown error
\* and never with a success payload.
C13_SearchFailureIsErrorText ==
    (pc = "done" /\ SearchFailed /\ WellFormedCoordinate) =>
        (result.kind = "content" /\ result.isError)

\* The depth argument is given and is not a number in 1..100.
InvalidDepth ==
    /\ args.depth # Undefined
    /\ \/ args.depth.t # "number"
       \/ args.depth.n < 1
       \/ args.depth.n > 100
       \/ (args.depth.n = 100 /\ args.depth.half)

\* Malformed or insufficient input: a dependency that is not a string, a
\* coordinate with fewer than two segments, no version from either source in
\* the existence check, an invalid depth in the listing.
InsufficientInput ==
    \/ ~HasDependencyString
    \/ NumSegments(args.dependency.s) < 2
    \/ (tool = CheckExists /\ ~HasEmbeddedVersion /\ ~HasVersionArgument)
    \/ (tool = ListVersions /\ WellFormedCoordinate /\ InvalidDepth)

\* The search returned no candidate, or none remains after the stable filter.
ZeroCandidates ==
    /\ response # None
    /\ response.kind = "ok"
    /\ Len(Remaining) = 0

ProtocolError == result.kind \in {"McpError", "Error"}

\* C14: every invocation ends in exactly one of three outcomes: a success text
\* payload, an error-flagged text payload, or a protocol-level error.
\* Malformed or insufficient input always gives the protocol-level error and
\* never a text payload; zero candidates (before or after stable filtering,
\* in the latest-release and listing operations) always give an error-flagged
\* text payload and never a protocol-level error.
C14_ThreeOutcomes ==
    (pc = "done" /\ tool \in Tools) =>
        /\ (result.kind = "content" /\ result.isError \in BOOLEAN) \/ ProtocolError
        /\ InsufficientInput => (ProtocolError /\ result.kind # "content")
        /\ (tool \in {Release, ListVersions} /\ ZeroCandidates) =>
               (result.kind = "content" /\ result.isError)

\* What an invocation returns or throws when it runs alone with the given
\* arguments and the given settlement of its search call.
ResultsAlone(name, a, resp) ==
    LET start == Start(name, a) IN
    IF start.kind = "throw" THEN {start.error} ELSE Finish(name, start.local, resp)

RequestsAlone(name, a) ==
    LET start == Start(name, a) IN
    IF start.kind = "throw" THEN <<>> ELSE <<start.request>>

\* C15: invocations share no mutable state: in every interleaving of
\* invocations in flight side by side, each invocation issues the request and
\* produces the result it would produce alone with the same arguments and the
\* same search response, whatever ran before it or runs beside it.
C15_InvocationsAreIndependent ==
    \A i \in Slots :
        /\ calls[i].pc \in {"awaiting", "done"} =>
               calls[i].sent = RequestsAlone(calls[i].tool, calls[i].args)
        /\ calls[i].pc = "done" =>
               calls[i].result \in ResultsAlone(calls[i].tool, calls[i].args, calls[i].response)

\* C15 witness: two get_latest_release invocations for different coordinates
\* finished, the first of them while the other was suspended at its search call,
\* both on an empty response, each with the not-found text of its own coordinate.
C15_Witness ==
    /\ calls[1].pc = "done" /\ calls[2].pc = "done"
    /\ calls[1].tool = Release /\ calls[2].tool = Release
    /\ calls[1].args # calls[2].args
    /\ calls[1].overlapped
    /\ calls[1].response = [kind |-> "ok", docs |-> <<>>]
    /\ calls[2].response = [kind |-> "ok", docs |-> <<>>]
    /\ calls[1].result # calls[2].result

\* sub occurs in chars as a contiguous run.
Contains(chars, sub) ==
    \E i \in 1..(Len(chars) - Len(sub) + 1) : SubSeq(chars, i, i + Len(sub) - 1) = sub

\* field:"value"
ExactClause(field, value) == <<field, ":", "\"">> \o value \o <<"\"">>

\* The coordinate of the call has a packaging: a non-empty fourth segment.
HasPackaging ==
    NumSegments(args.dependency.s) >= 4 /\ Len(Segment(args.dependency.s, 4)) > 0

\* C16: the query sent always has an exact-match clause for groupId and one
\* for artifactId; it has a packaging clause if and only if the coordinate has
\* a packaging, and a version clause if and only if the operation is
\* check_maven_version_exists, also when the coordinate embeds a version.
C16_QueryClauses ==
    (tool \in Tools /\ Len(sent) > 0) =>
        LET q   == sent[1].q
            dep == args.dependency.s
        IN /\ Contains(q, ExactClause("g", Segment(dep, 1)))
           /\ Contains(q, ExactClause("a", Segment(dep, 2)))
           /\ Contains(q, <<"p", ":", "\"">>) <=> HasPackaging
           /\ HasPackaging => Contains(q, ExactClause("p", Segment(dep, 4)))
           /\ Contains(q, <<"v", ":", "\"">>) <=> tool = CheckExists

\* C16 witness: list_maven_versions for g:a:1:j:c issued a query with the
\* packaging clause p:"j" and no version clause.
C16_Witness ==
    /\ tool = ListVersions
    /\ Len(sent) = 1
    /\ args.dependency = Str(<<"g", ":", "a", ":", "1", ":", "j", ":", "c">>)
    /\ Contains(sent[1].q, ExactClause("p", <<"j">>))
    /\ ~Contains(sent[1].q, <<"v", ":", "\"">>)

\* Message id was POSTed to /mcp while an SSE connection was open.
PostedOnOpenConnection(id) ==
    /\ net.mode = "sse"
    /\ id <= Len(net.received)
    /\ net.received[id].via = "post"
    /\ net.received[id].status = 200

\* C17: with the HTTP/SSE transport and an open SSE connection, a tool call
\* POSTed to /mcp is delivered to the request handlers and eventually answered
\* with the tool's result, as it is over stdio.
C17_PostedCallIsAnswered ==
    \A id \in 1..MaxMessages : PostedOnOpenConnection(id) ~> (id \in net.answered)

LatestVersion == "get_maven_latest_version"

\* C18: get_maven_latest_version returns the version of the most recently
\* published candidate, the record with the greatest publish timestamp among
\* those the search returned, whatever its version number; it returns the
\* not-found text when the search returns no record.
C18_LatestVersionIsMostRecentlyPublished ==
    (FinishedOnDocs(LatestVersion) /\ WellFormedCoordinate /\ AllHaveTimestamps(response.docs)) =>
        IF Len(response.docs) = 0
        THEN /\ result.kind = "content"
             /\ result.isError
             /\ StartsWith(result.text, NoDependencyPrefix)
        ELSE /\ Succeeded
             /\ \E i \in 1..Len(response.docs) :
                    /\ result.text = response.docs[i].v
                    /\ \A j \in 1..Len(response.docs) :
                           response.docs[j].timestamp.n <= response.docs[i].timestamp.n

\* C19: list_maven_versions takes a dependency of the form
\* groupId:artifactId[:packaging][:classifier]: a third segment (such as "jar"
\* in "org.springframework:spring-core:jar") is the packaging and restricts
\* the search query with a packaging clause.
C19_ListingThirdSegmentIsPackaging ==
    (/\ tool = ListVersions
     /\ Len(sent) > 0
     /\ WellFormedCoordinate
     /\ NumSegments(args.dependency.s) = 3
     /\ Len(Segment(args.dependency.s, 3)) > 0) =>
        Contains(sent[1].q, ExactClause("p", Segment(args.dependency.s, 3)))

StageOrder == <<"Validating", "Querying", "Selecting", "Formatting", "Done">>

StageRank(stage) == CHOOSE k \in 1..Len(StageOrder) : StageOrder[k] = stage

\* C20: each invocation moves through Validating, Querying, Selecting,
\* Formatting, Done strictly in that order, may go from any stage before Done
\* to the Errored terminal, never returns to an earlier stage, and does no
\* step of its own (no search request in particular) once it is in a terminal
\* stage: the only thing that follows is the end of the invocation.
C20_StagesInOrder ==
    [][/\ pc = "idle" => pc' = "Validating"
       /\ pc \in {"Validating", "Querying", "Selecting", "Formatting"} =>
              \/ pc' = "Errored"
              \/ pc' \in {"Querying", "Selecting", "Formatting", "Done"}
                     /\ StageRank(pc') = StageRank(pc) + 1
       /\ pc \in {"Done", "Errored"} => (pc' = "idle" /\ sent' = <<>>)
       /\ sent' # sent =>
              \/ pc = "Validating" /\ pc' = "Querying" /\ Len(sent') = 1
              \/ pc' = "idle"]_vars

\* C20 witness: a list_maven_versions invocation is Done with a success
\* payload, after its one request and the response it selected from.
C20_Witness ==
    /\ pc = "Done"
    /\ tool = ListVersions
    /\ Len(sent) = 1
    /\ response.kind = "ok"
    /\ Len(response.docs) = 2
    /\ result.kind = "content"
    /\ ~result.isError

\* The integer a component denotes: a run of decimal digits with an optional
\* sign; 0 for a component that is empty, not a number, or missing.
ComponentValue(version, k) ==
    LET parts == Split(version, ".")
        part  == IF k <= Len(parts) THEN parts[k] ELSE <<>>
        neg   == Len(part) >= 2 /\ part[1] = "-"
        run   == IF Len(part) >= 2 /\ part[1] \in {"-", "+"} THEN Tail(part) ELSE part
        PlaceValue[i \in 0..Len(run)] ==
            IF i = 0 THEN 0 ELSE 10 * PlaceValue[i - 1] + (CHOOSE d \in 0..9 : DigitChars[d + 1] = run[i])
    IN IF run = <<>> \/ \E i \in 1..Len(run) : run[i] \notin Digits THEN 0
       ELSE IF neg THEN 0 - PlaceValue[Len(run)] ELSE PlaceValue[Len(run)]

NumComponents(version) == Len(Split(version, "."))

\* a is higher than b: at the first component where they differ, a's is greater.
Higher(a, b) ==
    \E k \in 1..(NumComponents(a) + NumComponents(b)) :
        /\ ComponentValue(a, k) > ComponentValue(b, k)
        /\ \A j \in 1..(k - 1) : ComponentValue(a, j) = ComponentValue(b, j)

\* The place of candidate i, highest first, equal candidates in their
\* original order.
SemverRank(versions, i) ==
    1 + Cardinality({j \in 1..Len(versions) :
                        \/ Higher(versions[j], versions[i])
                        \/ ~Higher(versions[i], versions[j]) /\ j < i})

\* C21: the version sort compares versions component by component (split on
\* '.', each component an integer, non-numeric and missing components 0, left
\* to right): the selected version is maximal among the candidates, so that
\* 2.0.0 > 1.10.0 > 1.9.0; versions that compare equal (1.0.0-beta and 1.0.0,
\* 1.0 and 1.0.0) keep their original order and the first of them is selected.
C21_SemanticOrder ==
    fout # None =>
        /\ \A j \in 1..Len(fin) : ~Higher(fin[j], fout.latestVersion)
        /\ \A i \in 1..Len(fin) : fout.versions[SemverRank(fin, i)] = fin[i]
        /\ \A i \in 1..Len(fin) : SemverRank(fin, i) = 1 => fout.latestVersion = fin[i]

\* C21 witness: 1.9.0, 1.10.0 and 2.0.0 were sorted to 2.0.0, 1.10.0, 1.9.0.
C21_Witness ==
    /\ fout # None
    /\ fin = << <<"1", ".", "9", ".", "0">>, <<"1", ".", "1", "0", ".", "0">>,
                <<"2", ".", "0", ".", "0">> >>
    /\ fout.versions = << <<"2", ".", "0", ".", "0">>, <<"1", ".", "1", "0", ".", "0">>,
                          <<"1", ".", "9", ".", "0">> >>

\* C21 (equal versions): 1.0.0-beta ahead of 1.0.0 ahead of 1.0 in the result
\* stayed in that order and the first was selected.
C21_WitnessEqual ==
    /\ fout # None
    /\ fin = << <<"1", ".", "0", ".", "0", "-", "b", "e", "t", "a">>,
                <<"1", ".", "0", ".", "0">>, <<"1", ".", "0">> >>
    /\ fout.versions = fin
    /\ fout.latestVersion = <<"1", ".", "0", ".", "0", "-", "b", "e", "t", "a">>

\* How many entries of a list satisfy a test.
CountOf(list, Test(_)) == Cardinality({k \in 1..Len(list) : Test(list[k])})

\* C22: every version in a successful get_maven_latest_version,
\* get_latest_release or list_maven_versions result is the version of a
\* record the invocation's search call returned, and a listing has each
\* returned record at most once: a line occurs no more often than there are
\* records it is the line of.
C22_VersionsComeFromTheResponse ==
    /\ ((FinishedOnDocs(Release) \/ FinishedOnDocs(LatestVersion)) /\ Succeeded) =>
           \E i \in 1..Len(response.docs) : result.text = response.docs[i].v
    /\ (FinishedOnDocs(ListVersions) /\ Succeeded) =>
           LET lines == ListedLines(result.text) IN
           \A k \in 1..Len(lines) :
               /\ \E i \in 1..Len(response.docs) : VersionOfLine(lines[k]) = response.docs[i].v
               /\ CountOf(lines, LAMBDA line : line = lines[k])
                      <= CountOf(response.docs,
                                 LAMBDA doc : doc.timestamp.t = "number"
                                                  /\ ExpectedLine(doc) = lines[k])

\* C22 witness: the search returned the same version in two records with
\* different publish times, and the listing has a line for each.
C22_Witness ==
    /\ FinishedOnDocs(ListVersions)
    /\ Succeeded
    /\ Len(response.docs) = 2
    /\ response.docs[1].v = response.docs[2].v
    /\ response.docs[1].timestamp # response.docs[2].timestamp
    /\ Len(ListedLines(result.text)) = 2

\* Two dependency strings that differ in the fifth segment or beyond it only.
SameUpToFourthSegment(d1, d2) ==
    \A k \in 1..4 : SegmentOrUndefined(d1, k) = SegmentOrUndefined(d2, k)

\* C23: the classifier segment never influences an operation: two invocations
\* of the same tool whose dependency strings differ only in the fifth segment,
\* or in segments beyond the fifth, send the identical search query and, on
\* the same search response, return the identical result.
C23_ClassifierHasNoInfluence ==
    (fout # None /\ SameUpToFourthSegment(fin.first, fin.second)) =>
        /\ fout.first.sent = fout.second.sent
        /\ fout.first.results = fout.second.results

\* C23 witness: g:a:1:j:c and g:a:1:j:d were given to a tool, which sent the
\* same one request for both and returned the same result.
C23_Witness ==
    /\ fout # None
    /\ fin.first = <<"g", ":", "a", ":", "1", ":", "j", ":", "c">>
    /\ fin.second = <<"g", ":", "a", ":", "1", ":", "j", ":", "d">>
    /\ Len(fout.first.sent) = 1
    /\ fout.first = fout.second

\* The first position from i on that holds a double quote, 0 when there is none.
NextQuote(q, i) ==
    IF \E j \in i..Len(q) : q[j] = "\""
    THEN CHOOSE j \in i..Len(q) : q[j] = "\"" /\ \A k \in i..(j - 1) : q[k] # "\""
    ELSE 0

\* The structure of a query as the search service reads it from position i:
\* the field of each clause field:"phrase" (a phrase ends at the next double
\* quote) and the connectives between the clauses; "?" where the text is not
\* a clause or a connective.
RECURSIVE ClausesFrom(_, _)
ClausesFrom(q, i) ==
    IF i + 2 > Len(q) \/ q[i + 1] # ":" \/ q[i + 2] # "\"" THEN <<"?">>
    ELSE LET close == NextQuote(q, i + 3) IN
         IF close = 0 THEN <<q[i], "?">>
         ELSE IF close = Len(q) THEN <<q[i]>>
         ELSE IF StartsWith(SubSeq(q, close + 1, Len(q)), <<" ", "A", "N", "D", " ">>)
              THEN <<q[i], "AND">> \o ClausesFrom(q, close + 6)
         ELSE IF StartsWith(SubSeq(q, close + 1, Len(q)), <<" ", "O", "R", " ">>)
              THEN <<q[i], "OR">> \o ClausesFrom(q, close + 5)
         ELSE <<q[i], "?">>

QueryStructure(q) == ClausesFrom(q, 1)

\* The structure the operation and the fields present call for.
ExpectedStructure ==
    <<"g", "AND", "a">>
        \o (IF fin.tool = CheckExists THEN <<"AND", "v">> ELSE <<>>)
        \o (IF NumSegments(fin.dependency) >= 4 /\ Len(Segment(fin.dependency, 4)) > 0
            THEN <<"AND", "p">> ELSE <<>>)

\* C24: the structure of the search query (its clauses, the fields they name
\* and the AND connectives between them) is determined by the fields present
\* and the operation only, never by the characters inside groupId, artifactId,
\* version or packaging: no value, such as one with a double quote in it, adds,
\* removes or alters a clause.
C24_QueryStructureIsFixed ==
    (/\ fout # None
     /\ fout.kind = "request"
     /\ Len(Segment(fin.dependency, 1)) > 0
     /\ Len(Segment(fin.dependency, 2)) > 0) =>
        QueryStructure(fout.q) = ExpectedStructure

\* C25: in HTTP/SSE mode, in every interleaving of connection opens,
\* connection closes and POSTs to /mcp, a POST is answered with 400 if and
\* only if no SSE connection is open at the time; in particular, when a second
\* client opens /sse while a first is connected and the first then closes, the
\* second connection remains the active transport and the server is not
\* closed under it.
C25_PostRejectedIffNoConnection ==
    net.mode = "sse" =>
        /\ \A id \in 1..Len(net.received) :
               net.received[id].status = 400 <=> ~net.received[id].anyOpen
        /\ net.open # {} => net.currentTransport \in net.open
        /\ net.closedUnder = {}

=============================================================================
